---- MODULE Spec2Model ----
(***************************************************************************)
(* Model of gofilerd's job engine (src/main.go): the job table (jobMap),   *)
(* the submission handler (profile), the poll handler (getProfile), the    *)
(* reclamation sweep (jobMap.clean) and the runner goroutine (runProfiler) *)
(* with its unbuffered result channel.                                     *)
(*                                                                         *)
(* Every handler is split at the points where the Go code releases the     *)
(* table lock or blocks on the channel, so that handlers interleave as     *)
(* goroutines do.                                                          *)
(***************************************************************************)
EXTENDS Integers, FiniteSets, Sequences, TLC

(* ----------------------------- bounds -------------------------------- *)

\* largest value of the -max-jobs flag that is explored
MaxCapacity == 2
\* value of the -timeout flag (minutes)
timeout == 1
\* the wall clock runs from 0 to MaxTime (in units of one minute): long
\* enough for a record made at time 0 to outlive the timeout
MaxTime == timeout + 1

\* the strings generateRandomID can return (a small token space, so that
\* collisions and reuse of a token do happen)
Tokens == {"t1", "t2"}
\* request.Language values that passed withValidLanguage
Languages == {"eng"}
\* request.Language values for which gofiler.FindLanguage fails
UnknownLanguages == {"xxx"}
\* concurrent request goroutines serving POST /profile and GET /profile
Submitters == {"s1", "s2"}
Pollers == {"p1", "p2"}
\* The request load of one behaviour: which handler goroutines serve
\* requests and how many submissions (subs) arrive.  Either three
\* submissions arrive, two of them racing, while one client polls; or two
\* polls race while two submissions arrive one after the other.
Loads == {[submitters |-> {"s1", "s2"}, pollers |-> {"p1"}, subs |-> 3],
          [submitters |-> {"s1"}, pollers |-> {"p1", "p2"}, subs |-> 2]}
\* the largest number of submissions of a load
MaxSubmissions == CHOOSE n \in {l.subs : l \in Loads} : \A l \in Loads : l.subs <= n
\* channels are numbered in the order profile makes them
Chans == 1..MaxSubmissions

(* --------------------------- constants ------------------------------- *)

putJobOK == 0
putJobNotUnique == 1
putJobFull == 2

\* values of type result (profile, err).  NilErr is err == nil; the zero
\* value result{} is what a receive from a closed channel yields.
NilErr == "nil"
ZeroProfile == "zero"
ZeroResult == [profile |-> ZeroProfile, err |-> NilErr]
DeadlineExceeded == "deadline exceeded"
\* what gofiler.Run can return before the deadline
RunResults == {[profile |-> "P", err |-> NilErr],
               [profile |-> ZeroProfile, err |-> "E"]}
DeadlineResult == [profile |-> ZeroProfile, err |-> DeadlineExceeded]

NoToken == ""
NoJob == [pending |-> 0, language |-> "", start |-> 0]

VARIABLES
  load,       \* the request load of this behaviour (never changes)
  now,        \* time.Now()
  maxJobs,    \* the -max-jobs flag
  jobs,       \* jobs.m : token -> job (a function on the live tokens)
  nchan,      \* number of channels made so far
  runners,    \* per channel: the runProfiler goroutine bound to it
  sub,        \* per submitter: position and locals of profile
  poll,       \* per poller: position and locals of getProfile
  ret,        \* what the handler that returned in the last step returned
  reads,      \* per channel: number of receives that completed (history)
  writes,     \* per channel: number of sends that completed (history)
  owner       \* per token: channel of the last job admitted under it (history)

vars == <<load, now, maxJobs, jobs, nchan, runners, sub, poll, ret,
          reads, writes, owner>>

(* ------------------------- the job table ------------------------------ *)

\* time.Time.After
After(t, u) == t > u

\* jobMap.get
get(m, token) ==
  IF token \in DOMAIN m THEN [job |-> m[token], ok |-> TRUE]
                        ELSE [job |-> NoJob, ok |-> FALSE]

\* jobMap.del
del(m, token) == [t \in (DOMAIN m) \ {token} |-> m[t]]

\* put without the capacity check of line 288
putNoFullCheck(m, cap, language, token, pchan, t) ==
  IF token \in DOMAIN m
    THEN [res |-> putJobNotUnique, m |-> m]
  ELSE [res |-> putJobOK,
        m |-> [x \in (DOMAIN m) \cup {token} |->
                 IF x = token
                   THEN [pending |-> pchan, language |-> language, start |-> t]
                   ELSE m[x]]]

\* put without the lookup of lines 292-295: an existing entry is overwritten
putOverwrite(m, cap, language, token, pchan, t) ==
  IF Cardinality(DOMAIN m) >= cap
    THEN [res |-> putJobFull, m |-> m]
  ELSE [res |-> putJobOK,
        m |-> [x \in (DOMAIN m) \cup {token} |->
                 IF x = token
                   THEN [pending |-> pchan, language |-> language, start |-> t]
                   ELSE m[x]]]

\* put with the lookup of the token before the capacity check
putUniqueFirst(m, cap, language, token, pchan, t) ==
  IF token \in DOMAIN m
    THEN [res |-> putJobNotUnique, m |-> m]
  ELSE IF Cardinality(DOMAIN m) >= cap
    THEN [res |-> putJobFull, m |-> m]
  ELSE [res |-> putJobOK,
        m |-> [x \in (DOMAIN m) \cup {token} |->
                 IF x = token
                   THEN [pending |-> pchan, language |-> language, start |-> t]
                   ELSE m[x]]]

\* jobMap.put: the result code and the table afterwards
put(m, cap, language, token, pchan, t) ==
  IF Cardinality(DOMAIN m) >= cap
    THEN [res |-> putJobFull, m |-> m]
  ELSE IF token \in DOMAIN m
    THEN [res |-> putJobNotUnique, m |-> m]
  ELSE [res |-> putJobOK,
        m |-> [x \in (DOMAIN m) \cup {token} |->
                 IF x = token
                   THEN [pending |-> pchan, language |-> language, start |-> t]
                   ELSE m[x]]]

\* forDeletion with the comparison one minute late
forDeletionLate(m, t) ==
  {token \in DOMAIN m : After(t, m[token].start + timeout + 1)}

\* forDeletion with the comparison not strict (an entry whose age equals
\* the timeout is collected too)
forDeletionEarly(m, t) == {token \in DOMAIN m : t >= m[token].start + timeout}

\* the tokens jobMap.clean collects in forDeletion at time t
forDeletion(m, t) == {token \in DOMAIN m : After(t, m[token].start + timeout)}

\* a sweep that collects forDeletion but deletes nothing
cleanNone(m, t) == m

\* jobMap.clean: the table afterwards
clean(m, t) == [token \in (DOMAIN m) \ forDeletion(m, t) |-> m[token]]

(* ------------------------------ Init ---------------------------------- *)

IdleSub == [pc |-> "idle", pchan |-> 0, language |-> "", token |-> NoToken,
            collided |-> FALSE, swept |-> {}]
IdlePoll == [pc |-> "idle", token |-> NoToken, job |-> NoJob, p |-> ZeroResult,
             fromRunner |-> FALSE]
NoResp == [kind |-> "none"]

Init ==
  /\ load \in Loads
  /\ now = 0
  /\ maxJobs \in 1..MaxCapacity
  /\ jobs = [t \in {} |-> NoJob]
  /\ nchan = 0
  /\ runners = [c \in Chans |-> [pc |-> "unstarted", deadline |-> 0, res |-> ZeroResult]]
  /\ sub = [s \in Submitters |-> IdleSub]
  /\ poll = [p \in Pollers |-> IdlePoll]
  /\ ret = NoResp
  /\ reads = [c \in Chans |-> 0]
  /\ writes = [c \in Chans |-> 0]
  /\ owner = [t \in Tokens |-> 0]

(* ------------------------------ clock --------------------------------- *)

Tick ==
  /\ now < MaxTime
  /\ now' = now + 1
  /\ ret' = NoResp
  /\ UNCHANGED <<load, maxJobs, jobs, nchan, runners, sub, poll, reads, writes, owner>>

(* ---------------------- profile (POST /profile) ----------------------- *)

\* withValidLanguage, lines 171-177: gofiler.FindLanguage fails and the
\* request is answered without profile being called
WithValidLanguageReject(s, language) ==
  /\ s \in load.submitters
  /\ sub[s].pc = "idle"
  /\ language \in UnknownLanguages
  /\ ret' = [kind |-> "nolanguage", language |-> language]
  /\ UNCHANGED <<load, now, maxJobs, jobs, nchan, runners, sub, poll, reads, writes,
                 owner>>

\* a sweep that also cancels the computations of the records it removes
ProfileCleanCancels(s, language) ==
  /\ s \in load.submitters
  /\ sub[s].pc = "idle"
  /\ nchan < load.subs
  /\ nchan' = nchan + 1
  /\ jobs' = clean(jobs, now)
  /\ runners' = [c \in Chans |->
       IF /\ runners[c].pc = "run"
          /\ \E t \in forDeletion(jobs, now) : jobs[t].pending = c
         THEN [pc |-> "send", deadline |-> 0, res |-> DeadlineResult]
         ELSE runners[c]]
  /\ sub' = [sub EXCEPT ![s] =
       [pc |-> "put", pchan |-> nchan + 1, language |-> language,
        token |-> NoToken, collided |-> FALSE,
        swept |-> {[pending |-> jobs[t].pending, age |-> now - jobs[t].start] :
                     t \in forDeletion(jobs, now)}]]
  /\ ret' = NoResp
  /\ UNCHANGED <<load, now, maxJobs, poll, reads, writes, owner>>

\* withValidLanguage, lines 171 and 178: the language is found and profile
\* is called; profile, lines 364-366: make the channel, then jobs.clean()
ProfileClean(s, language) ==
  /\ s \in load.submitters
  /\ sub[s].pc = "idle"
  /\ nchan < load.subs
  /\ nchan' = nchan + 1
  /\ jobs' = clean(jobs, now)
  /\ sub' = [sub EXCEPT ![s] =
       [pc |-> "put", pchan |-> nchan + 1, language |-> language,
        token |-> NoToken, collided |-> FALSE,
        swept |-> {[pending |-> jobs[t].pending, age |-> now - jobs[t].start] :
                     t \in forDeletion(jobs, now)}]]
  /\ ret' = NoResp
  /\ UNCHANGED <<load, now, maxJobs, runners, poll, reads, writes, owner>>

\* profile, lines 368-371: generateRandomID, jobs.put returns putJobOK
ProfilePutOK(s, token) ==
  LET r == put(jobs, maxJobs, sub[s].language, token, sub[s].pchan, now) IN
  /\ sub[s].pc = "put"
  /\ r.res = putJobOK
  /\ jobs' = r.m
  /\ sub' = [sub EXCEPT ![s].pc = "go", ![s].token = token]
  /\ owner' = [owner EXCEPT ![token] = sub[s].pchan]
  /\ ret' = NoResp
  /\ UNCHANGED <<load, now, maxJobs, nchan, runners, poll, reads, writes>>

\* profile, lines 368-370 and 380: jobs.put returns putJobNotUnique, loop
ProfilePutNotUnique(s, token) ==
  LET r == put(jobs, maxJobs, sub[s].language, token, sub[s].pchan, now) IN
  /\ sub[s].pc = "put"
  /\ r.res = putJobNotUnique
  /\ jobs' = r.m
  /\ sub' = [sub EXCEPT ![s].collided = TRUE]
  /\ ret' = NoResp
  /\ UNCHANGED <<load, now, maxJobs, nchan, runners, poll, reads, writes, owner>>

\* a handler that starts the runner before it looks at the result of put
ProfilePutFullStarts(s, token) ==
  LET r == put(jobs, maxJobs, sub[s].language, token, sub[s].pchan, now) IN
  /\ sub[s].pc = "put"
  /\ r.res = putJobFull
  /\ jobs' = r.m
  /\ runners' = [runners EXCEPT ![sub[s].pchan] =
       [pc |-> "run", deadline |-> now + timeout, res |-> ZeroResult]]
  /\ sub' = [sub EXCEPT ![s] = IdleSub]
  /\ ret' = [kind |-> "full", by |-> s, pchan |-> sub[s].pchan,
             collided |-> sub[s].collided, swept |-> sub[s].swept]
  /\ UNCHANGED <<load, now, maxJobs, nchan, poll, reads, writes, owner>>

\* profile, lines 368-370 and 376-378: jobs.put returns putJobFull, the
\* handler returns http.StatusServiceUnavailable
ProfilePutFull(s, token) ==
  LET r == put(jobs, maxJobs, sub[s].language, token, sub[s].pchan, now) IN
  /\ sub[s].pc = "put"
  /\ r.res = putJobFull
  /\ jobs' = r.m
  /\ sub' = [sub EXCEPT ![s] = IdleSub]
  /\ ret' = [kind |-> "full", by |-> s, pchan |-> sub[s].pchan,
             collided |-> sub[s].collided, swept |-> sub[s].swept]
  /\ UNCHANGED <<load, now, maxJobs, nchan, runners, poll, reads, writes, owner>>

\* profile, lines 372-375: go runProfiler(path, tokens, pchan); return token
ProfileGo(s) ==
  /\ sub[s].pc = "go"
  /\ runners' = [runners EXCEPT ![sub[s].pchan] =
       [pc |-> "run", deadline |-> now + timeout, res |-> ZeroResult]]
  /\ sub' = [sub EXCEPT ![s] = IdleSub]
  /\ ret' = [kind |-> "token", by |-> s, token |-> sub[s].token,
             pchan |-> sub[s].pchan, collided |-> sub[s].collided]
  /\ UNCHANGED <<load, now, maxJobs, jobs, nchan, poll, reads, writes, owner>>

(* -------------------------- runProfiler ------------------------------- *)

\* lines 387-394: gofiler.Run returns before the context's deadline
RunReturn(c, res) ==
  /\ runners[c].pc = "run"
  /\ now < runners[c].deadline
  /\ runners' = [runners EXCEPT ![c] = [pc |-> "send", deadline |-> 0, res |-> res]]
  /\ ret' = NoResp
  /\ UNCHANGED <<load, now, maxJobs, jobs, nchan, sub, poll, reads, writes, owner>>

\* a computation that ignores the cancellation of its context
RunDeadlineIgnored(c) ==
  /\ runners[c].pc = "run"
  /\ now >= runners[c].deadline
  /\ UNCHANGED vars

\* lines 387-394: the context's deadline passes and cancels gofiler.Run
RunDeadline(c) ==
  /\ runners[c].pc = "run"
  /\ now >= runners[c].deadline
  /\ runners' = [runners EXCEPT ![c] =
       [pc |-> "send", deadline |-> 0, res |-> DeadlineResult]]
  /\ ret' = NoResp
  /\ UNCHANGED <<load, now, maxJobs, jobs, nchan, sub, poll, reads, writes, owner>>

\* close(pchan) not deferred: it can run while the send is still pending
RunCloseEarly(c) ==
  /\ runners[c].pc \in {"send", "sent"}
  /\ runners' = [runners EXCEPT ![c].pc = "closed", ![c].res = ZeroResult]
  /\ ret' = NoResp
  /\ UNCHANGED <<load, now, maxJobs, jobs, nchan, sub, poll, reads, writes, owner>>

\* line 385 (deferred): close(pchan), once the send of line 396 is over
RunClose(c) ==
  /\ runners[c].pc = "sent"
  /\ runners' = [runners EXCEPT ![c].pc = "closed"]
  /\ ret' = NoResp
  /\ UNCHANGED <<load, now, maxJobs, jobs, nchan, sub, poll, reads, writes, owner>>

(* --------------------- getProfile (GET /profile) ---------------------- *)

\* what getProfile returns for a received result p (lines 336-346)
Response(token, job, p) ==
  IF p.err # NilErr
    THEN [kind |-> "err", err |-> p.err, token |-> token, pchan |-> job.pending]
    ELSE [kind |-> "done", profile |-> p.profile, language |-> job.language,
          token |-> token, pchan |-> job.pending]

\* a lookup miss that tells a token that was issued before from one that
\* never was
GetProfileNotFoundGone(p, token) ==
  /\ p \in load.pollers
  /\ poll[p].pc = "idle"
  /\ ~get(jobs, token).ok
  /\ ret' = [kind |-> IF owner[token] = 0 THEN "notfound" ELSE "gone",
             token |-> token, pchan |-> owner[token]]
  /\ UNCHANGED <<load, now, maxJobs, jobs, nchan, runners, sub, poll, reads, writes,
                 owner>>

\* lines 328-331: jobs.get misses, return http.StatusNotFound
GetProfileNotFound(p, token) ==
  /\ p \in load.pollers
  /\ poll[p].pc = "idle"
  /\ ~get(jobs, token).ok
  /\ ret' = [kind |-> "notfound", token |-> token, pchan |-> owner[token]]
  /\ UNCHANGED <<load, now, maxJobs, jobs, nchan, runners, sub, poll, reads, writes,
                 owner>>

\* line 328: jobs.get hits; the handler goes on to the select
GetProfileFound(p, token) ==
  /\ p \in load.pollers
  /\ poll[p].pc = "idle"
  /\ get(jobs, token).ok
  /\ poll' = [poll EXCEPT ![p] =
       [pc |-> "select", token |-> token,
        job |-> [get(jobs, token).job EXCEPT !.start = 0],
        p |-> ZeroResult, fromRunner |-> FALSE]]
  /\ ret' = NoResp
  /\ UNCHANGED <<load, now, maxJobs, jobs, nchan, runners, sub, reads, writes, owner>>

\* The select of lines 333-347 has one case and no default: it proceeds
\* only when the receive can, that is when the runner is blocked in its
\* send or has closed the channel.
CanReceive(c) == runners[c].pc \in {"send", "closed"}

\* lines 334 and 396: the runner's send meets this receive
SelectReceive(p) ==
  LET c == poll[p].job.pending IN
  /\ poll[p].pc = "select"
  /\ runners[c].pc = "send"
  /\ poll' = [poll EXCEPT ![p].pc = "del", ![p].p = runners[c].res,
                          ![p].fromRunner = TRUE]
  /\ runners' = [runners EXCEPT ![c].pc = "sent", ![c].res = ZeroResult]
  /\ reads' = [reads EXCEPT ![c] = @ + 1]
  /\ writes' = [writes EXCEPT ![c] = @ + 1]
  /\ ret' = NoResp
  /\ UNCHANGED <<load, now, maxJobs, jobs, nchan, sub, owner>>

\* line 334 on a closed channel: the receive yields the zero result
SelectReceiveClosed(p) ==
  LET c == poll[p].job.pending IN
  /\ poll[p].pc = "select"
  /\ runners[c].pc = "closed"
  /\ poll' = [poll EXCEPT ![p].pc = "del", ![p].p = ZeroResult]
  /\ reads' = [reads EXCEPT ![c] = @ + 1]
  /\ ret' = NoResp
  /\ UNCHANGED <<load, now, maxJobs, jobs, nchan, runners, sub, writes, owner>>

\* getProfile without the deferred jobs.del of line 335
GetProfileNoDel(p) ==
  /\ poll[p].pc = "del"
  /\ ret' = Response(poll[p].token, poll[p].job, poll[p].p)
  /\ poll' = [poll EXCEPT ![p] = IdlePoll]
  /\ UNCHANGED <<load, now, maxJobs, jobs, nchan, runners, sub, reads, writes, owner>>

\* lines 335-346: the deferred jobs.del(token.ID) runs, then the handler
\* returns the error or the profile
GetProfileDel(p) ==
  /\ poll[p].pc = "del"
  /\ jobs' = del(jobs, poll[p].token)
  /\ ret' = Response(poll[p].token, poll[p].job, poll[p].p)
  /\ poll' = [poll EXCEPT ![p] = IdlePoll]
  /\ UNCHANGED <<load, now, maxJobs, nchan, runners, sub, reads, writes, owner>>

(* ------------------------------ Next ---------------------------------- *)

Next ==
  \/ Tick
  \/ \E s \in Submitters, l \in UnknownLanguages : WithValidLanguageReject(s, l)
  \/ \E s \in Submitters, l \in Languages : ProfileClean(s, l)
  \/ \E s \in Submitters, t \in Tokens : ProfilePutOK(s, t)
  \/ \E s \in Submitters, t \in Tokens : ProfilePutNotUnique(s, t)
  \/ \E s \in Submitters, t \in Tokens : ProfilePutFull(s, t)
  \/ \E s \in Submitters : ProfileGo(s)
  \/ \E c \in Chans, r \in RunResults : RunReturn(c, r)
  \/ \E c \in Chans : RunDeadline(c)
  \/ \E c \in Chans : RunClose(c)
  \/ \E p \in Pollers, t \in Tokens : GetProfileNotFound(p, t)
  \/ \E p \in Pollers, t \in Tokens : GetProfileFound(p, t)
  \/ \E p \in Pollers : SelectReceive(p)
  \/ \E p \in Pollers : SelectReceiveClosed(p)
  \/ \E p \in Pollers : GetProfileDel(p)

Spec == Init /\ [][Next]_vars

TypeOK ==
  /\ now \in 0..MaxTime
  /\ maxJobs \in 1..MaxCapacity
  /\ DOMAIN jobs \subseteq Tokens
  /\ nchan \in 0..MaxSubmissions

\* The Go scheduler runs every goroutine that can run: a handler that
\* holds no blocked operation finishes, the external computation returns
\* or is cancelled at its deadline, and the clock advances.  New requests
\* (WithValidLanguageReject, ProfileClean, GetProfileFound,
\* GetProfileNotFound) are the clients' choice and carry no fairness.
Fairness ==
  /\ WF_vars(Tick)
  /\ \A s \in Submitters :
       /\ WF_vars(\E t \in Tokens : ProfilePutOK(s, t) \/ ProfilePutFull(s, t))
       /\ WF_vars(ProfileGo(s))
  /\ \A c \in Chans :
       /\ WF_vars((\E r \in RunResults : RunReturn(c, r)) \/ RunDeadline(c))
       /\ WF_vars(RunClose(c))
  /\ \A p \in Pollers :
       /\ WF_vars(SelectReceive(p))
       /\ WF_vars(SelectReceiveClosed(p))
       /\ WF_vars(GetProfileDel(p))

FairSpec == Spec /\ Fairness

\* A client that keeps polling a token: whenever a poller is free, a
\* GET /profile for the token is eventually served (getProfile up to the
\* lookup of line 328).
KeepsPolling ==
  \A t \in Tokens :
    WF_vars(\E p \in Pollers : GetProfileFound(p, t) \/ GetProfileNotFound(p, t))

\* the workload with one submitting and two polling clients
PollInit == Init /\ Cardinality(load.pollers) = Cardinality(Pollers)

PollSpec == PollInit /\ [][Next]_vars /\ Fairness /\ KeepsPolling

(* ---------------------------- helpers --------------------------------- *)

Size(m) == Cardinality(DOMAIN m)
\* submitter s takes a step of profile
SubStep(s) == sub'[s] # sub[s] \/ (ret'.kind \in {"full", "token"} /\ ret'.by = s)
\* age of a record at time t
Age(j, t) == t - j.start

(* ------------------------------- C1 ----------------------------------- *)

\* C1: in every state the table holds at most maxJobs records, and a step
\* of profile whose put finds the table holding maxJobs records or more
\* returns capacity-exceeded (503) and leaves the table as it was.
C1_Capacity ==
  [][ /\ Size(jobs') <= maxJobs'
      /\ \A s \in Submitters :
           (sub[s].pc = "put" /\ SubStep(s) /\ Size(jobs) >= maxJobs)
             => (ret'.kind = "full" /\ ret'.by = s /\ jobs' = jobs) ]_vars

\* a submission has just been rejected while the table holds maxJobs records
C1_Witness == ret.kind = "full" /\ Size(jobs) = maxJobs

(* ------------------------------- C2 ----------------------------------- *)

\* C2: a poll that found its token in the table never waits for the
\* runner: at the select it can always go on, whether or not the runner
\* has offered a result.
C2_PollNeverWaits ==
  \A p \in Pollers : poll[p].pc = "select" => CanReceive(poll[p].job.pending)

(* ------------------------------- C3 ----------------------------------- *)

C4_SingleRead ==
  /\ \A c \in Chans : reads[c] <= 1
  /\ ~(ret.kind = "done" /\ ret.profile = ZeroProfile)

(* ------------------------------- C5 ----------------------------------- *)

\* C5: when the sweep of a submission has run at time now, no record older
\* than the timeout is left in the table, and a lookup of the token of a
\* record that was older than the timeout misses (the poll returns
\* not-found).
C5_SweepReclaims ==
  [][ \A s \in Submitters :
        (sub[s].pc = "idle" /\ sub'[s].pc = "put")
          => /\ \A t \in DOMAIN jobs' : ~(Age(jobs'[t], now') > timeout)
             /\ \A t \in DOMAIN jobs :
                  Age(jobs[t], now) > timeout => ~get(jobs', t).ok ]_vars

\* a sweep has just removed a record
C5_Witness == \E s \in Submitters : sub[s].pc = "put" /\ sub[s].swept # {}

(* ------------------------------- C6 ----------------------------------- *)

\* C6 as claimed: a submission whose generated token collided with a live
\* record is admitted in the end; it is never rejected.
C6_CollisionEndsAdmitted == ~(ret.kind = "full" /\ ret.collided)

\* C6 as amended: live records are pairwise distinct, no step changes the
\* record of a token that stays live, a put that admits inserts under a
\* token that was not live, and a submission that collided goes on to
\* either an admission or a capacity-exceeded rejection, never to a
\* response that names the collision.
C6_NoOverwrite ==
  [][ /\ \A t, u \in DOMAIN jobs' : t # u => jobs'[t].pending # jobs'[u].pending
      /\ \A t \in DOMAIN jobs \cap DOMAIN jobs' :
           jobs'[t] = jobs[t]
      /\ \A s \in Submitters :
           (sub[s].pc = "put" /\ sub'[s].pc = "go")
             => /\ sub'[s].token \notin DOMAIN jobs
                /\ jobs'[sub'[s].token].pending = sub[s].pchan
                /\ \A t \in DOMAIN jobs : jobs'[t] = jobs[t]
      /\ \A s \in Submitters :
           (sub[s].pc = "put" /\ sub[s].collided /\ SubStep(s))
             => \/ sub'[s].pc = "go"
                \/ ret'.kind = "full"
                \/ (sub'[s].pc = "put" /\ jobs' = jobs) ]_vars

\* a submission that collided has been admitted under another token
C6_Witness ==
  \E s \in Submitters :
    /\ sub[s].pc = "go"
    /\ sub[s].collided
    /\ Size(jobs) = 2

(* ------------------------------- C7 ----------------------------------- *)

\* C7 as claimed: a submission that is rejected with capacity-exceeded has
\* removed no record from the table.
C7_RejectedLeavesTable == ret.kind = "full" => ret.swept = {}

\* C7 as amended: the failing put leaves the table as it was, the rejected
\* submission's channel is in no record, and the only records the rejected
\* submission has removed are those its own sweep reclaimed, each older
\* than the timeout.
C7_RejectedOnlySweeps ==
  [][ \A s \in Submitters :
        (ret'.kind = "full" /\ ret'.by = s)
          => /\ jobs' = jobs
             /\ \A t \in DOMAIN jobs' : jobs'[t].pending # sub[s].pchan
             /\ ret'.swept = sub[s].swept
             /\ \A r \in ret'.swept : r.age > timeout ]_vars

\* a submission has been rejected after its sweep removed a record
C7_Witness == ret.kind = "full" /\ ret.swept # {}

(* ------------------------------- C8 ----------------------------------- *)

\* C8: the runner hands over at most one value on its channel, the channel
\* is closed only after that value was handed over, and nothing is handed
\* over once it is closed.
C8_WriteThenClose ==
  \A c \in Chans :
    /\ writes[c] <= 1
    /\ runners[c].pc = "closed" => writes[c] = 1
    /\ writes[c] = 1 => runners[c].pc \in {"sent", "closed"}
    /\ runners[c].pc \in {"unstarted", "run", "send"} => writes[c] = 0

\* a runner has handed over its value and closed the channel
C8_Witness == \E c \in Chans : runners[c].pc = "closed" /\ writes[c] = 1

(* ------------------------------- C9 ----------------------------------- *)

\* C9: every started runner eventually terminates (closes its channel),
\* whether or not its token is ever polled.
C9_RunnerTerminates ==
  \A c \in Chans : (runners[c].pc = "run") ~> (runners[c].pc = "closed")

(* ------------------------------- C10 ---------------------------------- *)

\* C10: when the computation of a job was cancelled at its deadline, a
\* client polling the job's token is given the deadline-exceeded error; no
\* poll of the token returns not-found while the runner still holds it.
C10_DeadlineSurfaced ==
  ~(/\ ret.kind = "notfound"
    /\ ret.pchan # 0
    /\ runners[ret.pchan].pc = "send"
    /\ runners[ret.pchan].res.err = DeadlineExceeded)

(* ------------------------------- C11 ---------------------------------- *)

\* C11: a poll of a token that is not in the table returns not-found at
\* once: it reads from no channel, leaves the table, the runners and the
\* pollers as they were, and answers the same whether the token was never
\* issued, was delivered or was reclaimed.
C11_AbsentIsNotFound ==
  [][ (poll' = poll /\ ret'.kind \notin {"none", "full", "token", "nolanguage"})
        => /\ ret'.kind = "notfound"
           /\ ~get(jobs, ret'.token).ok
           /\ jobs' = jobs
           /\ reads' = reads
           /\ writes' = writes
           /\ runners' = runners ]_vars

\* a poll of a token whose result was delivered has just returned not-found
C11_Witness ==
  /\ ret.kind = "notfound"
  /\ ret.pchan # 0
  /\ runners[ret.pchan].pc = "closed"
  /\ reads[ret.pchan] = 1

(* ------------------------------- C12 ---------------------------------- *)

\* the parts of the capacity-1 trace that do not hang on the poll of an
\* unfinished job: an accepted submission leaves one record in the table, a
\* submission is rejected only while a record is there, and when a poll has
\* returned the profile the job's record is out of the table (up to time
\* timeout no record is older than the timeout)
C12_TraceRest ==
  (maxJobs = 1 /\ now <= timeout) =>
    /\ \A s \in Submitters :
         (sub[s].pc = "go" /\ get(jobs, sub[s].token).ok)
           => (Size(jobs) = 1 /\ jobs[sub[s].token].pending = sub[s].pchan)
    /\ ret.kind = "full" => Size(jobs) = 1
    /\ (ret.kind = "done" /\ ret.profile # ZeroProfile)
         => (~get(jobs, ret.token).ok
               /\ \A t \in DOMAIN jobs : jobs[t].pending # ret.pchan)

\* C12: with capacity 1 and no record older than the timeout the system produces this trace: submission A is
\* accepted and the table holds one record; submission B is rejected while
\* A is undelivered; a poll of A's token before the computation has
\* finished returns (done = false) instead of waiting; once the computation
\* has finished with P, the poll returns done = true with P and the table
\* is empty.
C12_CapacityOneTrace ==
  /\ C12_TraceRest
  /\ (maxJobs = 1 /\ now <= timeout) =>
       \A p \in Pollers :
         poll[p].pc = "select"
           => runners[poll[p].job.pending].pc # "run"

(* ------------------------------- C13 ---------------------------------- *)

\* C13 as claimed: in every reachable state a record that is in the table
\* later than its start time plus the timeout has had its result drained
\* by a poll.
C13_NoStaleRecord ==
  \A t \in DOMAIN jobs :
    Age(jobs[t], now) > timeout => writes[jobs[t].pending] = 1

\* C13 as amended: a record is in the table later than its start time plus
\* the timeout only while no submission has swept since: such a record was
\* in the table, unchanged, before the step, and the step is not the sweep
\* of a submission.
C13_StaleUntilNextSweep ==
  [][ \A t \in DOMAIN jobs' :
        Age(jobs'[t], now') > timeout
          => /\ t \in DOMAIN jobs
             /\ jobs[t] = jobs'[t]
             /\ \A s \in Submitters :
                  ~(sub[s].pc = "idle" /\ sub'[s].pc = "put") ]_vars

\* an undrained record older than the timeout is in the table, after
\* requests other than submissions were served
C13_Witness ==
  /\ \E t \in DOMAIN jobs :
       Age(jobs[t], now) > timeout /\ writes[jobs[t].pending] = 0
  /\ ret.kind = "notfound"

(* ------------------------------- C14 ---------------------------------- *)

\* a poll of token t has just returned a terminal answer: done with the
\* runner's profile, the runner's error, or not-found
TerminalAnswer(t) ==
  /\ ret.kind \in {"done", "err", "notfound"}
  /\ ret.token = t
  /\ ret.kind = "done" => ret.profile # ZeroProfile

\* C14: with runner, computation and handlers scheduled fairly and the
\* deadline honoured, a client that keeps polling the token of an admitted
\* job eventually receives a terminal answer.
C14_PollingEnds ==
  \A t \in Tokens : (t \in DOMAIN jobs) ~> TerminalAnswer(t)

\* a poll that waited at the select for a runner cancelled at its deadline
\* has returned the runner's error
C14_Witness ==
  /\ ret.kind = "err"
  /\ ret.err = DeadlineExceeded
  /\ runners[ret.pchan].pc \in {"sent", "closed"}

(* ------------------------------- C15 ---------------------------------- *)

\* what C15 says of one call put(language, token, pchan) on the table at
\* the current time
PutAsClaimed(language, token, pchan) ==
  LET r == put(jobs, maxJobs, language, token, pchan, now) IN
  IF Size(jobs) >= maxJobs
    THEN r.res = putJobFull /\ r.m = jobs
  ELSE IF token \in DOMAIN jobs
    THEN r.res = putJobNotUnique /\ r.m = jobs
  ELSE /\ r.res = putJobOK
       /\ DOMAIN r.m = DOMAIN jobs \cup {token}
       /\ r.m[token] = [pending |-> pchan, language |-> language, start |-> now]
       /\ \A x \in DOMAIN jobs : r.m[x] = jobs[x]

\* C15: put is one atomic step whose result is fixed by the table: Full
\* when the size is at least the capacity (also when the token is
\* present), else NotUnique when the token is present, else OK; Full and
\* NotUnique leave the table unchanged, OK adds exactly the record
\* {language, token, now, channel} and changes no other record.  The
\* handler's step takes the table put returns: a rejected or colliding
\* put leaves it, an accepted one adds the submitter's record.
C15_PutAtomic ==
  /\ [](\A l \in Languages, t \in Tokens, c \in Chans : PutAsClaimed(l, t, c))
  /\ [][ \A s \in Submitters :
          (sub[s].pc = "put" /\ SubStep(s))
            => IF Size(jobs) >= maxJobs
                 THEN ret'.kind = "full" /\ jobs' = jobs
               ELSE IF sub'[s].pc = "put"
                 THEN jobs' = jobs /\ DOMAIN jobs # {}
               ELSE /\ sub'[s].pc = "go"
                    /\ sub'[s].token \notin DOMAIN jobs
                    /\ jobs' = put(jobs, maxJobs, sub[s].language,
                                   sub'[s].token, sub[s].pchan, now).m
                    /\ Size(jobs') = Size(jobs) + 1 ]_vars

\* a put has returned Full on a table that holds every token, so also the
\* token it was called with
C15_Witness ==
  /\ ret.kind = "full"
  /\ DOMAIN jobs = Tokens

(* ------------------------------- C16 ---------------------------------- *)

\* C16: the sweep run at time now removes exactly the records with
\* now - start > timeout; every other record, also one whose age is equal
\* to the timeout, stays in the table unchanged.
C16_SweepExact ==
  [][ \A s \in Submitters :
        (sub[s].pc = "idle" /\ sub'[s].pc = "put")
          => /\ DOMAIN jobs' = {t \in DOMAIN jobs : Age(jobs[t], now) <= timeout}
             /\ \A t \in DOMAIN jobs' : jobs'[t] = jobs[t] ]_vars

\* a sweep has removed a record and left one whose age is the timeout
C16_Witness ==
  \E s \in Submitters :
    /\ sub[s].pc = "put"
    /\ sub[s].swept # {}
    /\ \E t \in DOMAIN jobs : Age(jobs[t], now) = timeout

(* ------------------------------- C17 ---------------------------------- *)

\* the steps that start a runner, and the steps of a rejection
RunnerStartStep ==
  /\ \A c \in Chans :
       (runners[c].pc = "unstarted" /\ runners'[c].pc # "unstarted")
         => /\ runners'[c].pc = "run"
            /\ ret'.kind = "token" /\ ret'.pchan = c
            /\ \E s \in Submitters :
                 sub[s].pc = "go" /\ sub[s].pchan = c /\ sub'[s].pc = "idle"
            /\ \A d \in Chans \ {c} : runners'[d] = runners[d]
  /\ \A c \in Chans :
       (runners[c].pc # "unstarted" /\ runners'[c].pc # runners[c].pc)
         => runners'[c].pc \notin {"unstarted", "run"}
  /\ \A s \in Submitters :
       (sub[s].pc # "go" /\ sub'[s].pc = "go")
         => /\ sub[s].pc = "put"
            /\ ~get(jobs, sub'[s].token).ok
            /\ get(jobs', sub'[s].token).ok
            /\ jobs'[sub'[s].token].pending = sub'[s].pchan
            /\ runners[sub'[s].pchan].pc = "unstarted"
  /\ \A s \in Submitters :
       (sub[s].pc = "go" /\ sub'[s].pc # "go")
         => runners'[sub[s].pchan].pc = "run"
  /\ ret'.kind \in {"full", "nolanguage"} => runners' = runners

\* the runner of a record, and of a rejected submission
RunnerPerRecord ==
  /\ ret.kind = "full" => runners[ret.pchan].pc = "unstarted"
  /\ \A t \in DOMAIN jobs :
       \/ runners[jobs[t].pending].pc # "unstarted"
       \/ \E s \in Submitters :
            sub[s].pc = "go" /\ sub[s].pchan = jobs[t].pending

\* C17: one runner is started for each submission whose put returned OK,
\* on the channel stored in its record, and none for a submission rejected
\* for capacity or at the language validation.  A runner starts only in
\* the step of a handler whose put returned OK, on that handler's channel,
\* and no other runner changes in that step; a handler is in that position
\* only by a put that stored its channel under its token; a started runner
\* is never started again; a rejection leaves all runners as they were and
\* the channel of a rejected submission has no runner; and the channel of
\* every record has its runner started or about to be started by the
\* handler that inserted it.
C17_OneRunnerPerAdmission == [][RunnerStartStep]_vars /\ []RunnerPerRecord

\* a submission was admitted and its runner started after another was
\* rejected, whose channel has no runner
C17_Witness ==
  /\ ret.kind = "token"
  /\ runners[ret.pchan].pc = "run"
  /\ \E c \in 1..nchan :
       /\ c < ret.pchan
       /\ runners[c].pc = "unstarted"
       /\ \A s \in Submitters : sub[s].pchan # c

(* ------------------------------- C18 ---------------------------------- *)

\* a step of a table operation: the sweep of a submission, a put, the
\* lookup of a poll, the del of a poll
TableStep ==
  \/ \E s \in Submitters : sub[s].pc = "idle" /\ sub'[s].pc = "put"
  \/ \E s \in Submitters : sub[s].pc = "put" /\ sub'[s].pc \in {"put", "go", "idle"}
                              /\ (sub'[s] # sub[s] \/ jobs' # jobs)
  \/ \E p \in Pollers : poll[p].pc = "idle" /\ poll'[p].pc = "select"
  \/ ret'.kind = "notfound"
  \/ \E p \in Pollers : poll[p].pc = "del" /\ poll'[p].pc = "idle"

\* C18: removing a record, by del or by the sweep, does not read, write or
\* close its channel and does not cancel or shorten its computation: every
\* step of a table operation, and every step that changes the table,
\* leaves the runners with their deadlines and the channels as they were.
C18_TableLeavesRunners ==
  [][ (TableStep \/ jobs' # jobs)
        => (runners' = runners /\ reads' = reads /\ writes' = writes) ]_vars

\* a sweep has removed the record of a job whose computation is running
C18_Witness ==
  \E s \in Submitters :
    /\ sub[s].pc = "put"
    /\ \E r \in sub[s].swept : runners[r.pending].pc = "run"

(* ------------------------------- C19 ---------------------------------- *)

\* C19: the del a poll performs after reading a result removes only the
\* record whose result the poll read: a record that leaves the table in
\* the poll's del step has the channel the poll received from.
C19_DelOwnRecord ==
  [][ \A p \in Pollers :
        (poll[p].pc = "del" /\ poll'[p].pc = "idle")
          => \A t \in (DOMAIN jobs) \ (DOMAIN jobs') :
               jobs[t].pending = poll[p].job.pending ]_vars

(* ------------------------------- C20 ---------------------------------- *)

\* the runners that were started and have not terminated
LiveRunners == {c \in Chans : runners[c].pc \in {"run", "send", "sent"}}

\* C20: in every reachable state the number of runners started and not
\* yet terminated is at most the capacity maxJobs, also after records were
\* reclaimed by the sweep and their slots taken by new submissions.
C20_RunnersWithinCapacity == Cardinality(LiveRunners) <= maxJobs

====
